---------------------------- MODULE Spec2Model ----------------------------
(***************************************************************************)
(* Broadcast-ephemeris core of GPSTk: the BDSEphemeris record operations   *)
(* (isValid, isHealthy, adjustValidity, svXvt), the lookup of              *)
(* GalEphemerisStore::findEphemeris, and SatArcMarker::Process.            *)
(*                                                                         *)
(* Times are whole seconds on one time scale.  The Kepler increment delea  *)
(* is carried in units of the convergence threshold 1.0e-11, so that       *)
(* |delea| > Threshold is the comparison fabs(delea) > 1.0e-11 of the      *)
(* source; the floating-point value itself depends on record fields the    *)
(* code never range-checks (ecc, M0, ...) and is drawn from DeleaVals.     *)
(***************************************************************************)
EXTENDS Integers, Sequences, FiniteSets, TLC

VARIABLES
    eph,        \* the BDSEphemeris object operated on
    ret,        \* outcome of the last operation on eph
    pc,         \* position inside svXvt: "idle", "kepler" or "geo"
    tq,         \* svXvt's argument t while the call is in progress
    loop_cnt,   \* svXvt local
    delea,      \* svXvt local, in units of 1.0e-11
    store,      \* GalEphemerisStore: the records it holds
    sret,       \* outcome of the last operation on the store
    deleteUnstableSats,  \* SatArcMarker member
    unstablePeriod,      \* SatArcMarker member, seconds
    satArcMap,           \* SatArcMarker member: satellite -> arc number
    satArcChangeMap,     \* SatArcMarker member: satellite -> epoch
    prevCSFlagMap,       \* SatArcMarker member: satellite -> flag
    aop,        \* the last SatArcMarker operation
    epochIn,    \* Process's argument epoch in the last call
    gIn,        \* Process's argument gData as passed to the last call
    gData       \* the data the last Process call returned

arcVars == <<deleteUnstableSats, unstablePeriod, satArcMap, satArcChangeMap,
             prevCSFlagMap, aop, epochIn, gIn, gData>>
vars == <<eph, ret, pc, tq, loop_cnt, delea, store, sret, arcVars>>
ephVars == <<eph, ret, pc, tq, loop_cnt, delea>>
storeVars == <<store, sret>>

(***************************** bounds **************************************)
\* satellite ids of the record under test range over 0..MaxId
MaxId == 6
\* |delea| ranges over 0..MaxDelea threshold units
MaxDelea == 2
\* the store holds at most MaxRecs records in the model
MaxRecs == 2
\* Process is not called once a satellite's arc number has reached MaxArc
MaxArc == 3

(************************ program constants ********************************)
\* validity duration added to Toe, seconds
ValidDuration == 3600
\* highest PRN of a geostationary satellite
GeoMaxId == 5
\* iteration cap of the Kepler loop
MaxLoopCnt == 20
\* first value of loop_cnt
FirstLoopCnt == 1
\* convergence threshold 1.0e-11, in threshold units
Threshold == 1
\* health code of a healthy satellite
HealthyCode == 0

(***************************** domains *************************************)
IdSet == 0..MaxId
ToeSet == {7200}
TransmitOffsets == {0 - 300, 0, 120, 3601}
QueryOffsets == {0 - 1, 0, 120, 3600, 3601}
QueryTimes == {toe + d : toe \in ToeSet, d \in QueryOffsets}
\* windows an object may carry before adjustValidity has run
InitWindows == {<<7200, 10800>>, <<10801, 7200>>}
HealthSet == {0, 1}
DeleaVals == (0 - MaxDelea)..MaxDelea
ZeroVec == <<0, 0, 0>>
\* velocities the standard propagator may report in the model
StdVelocities == {ZeroVec, <<3, 0, 0>>}

Abs(x) == IF x < 0 THEN 0 - x ELSE x

NoXvt == [variant |-> "none", v |-> ZeroVec]
NoRet == [op |-> "none", t |-> 0, kind |-> "none", bool |-> FALSE,
          err |-> "", xvt |-> NoXvt]
ErrRet(o, t, msg) == [op |-> o, t |-> t, kind |-> "error", bool |-> FALSE,
                      err |-> msg, xvt |-> NoXvt]
BoolRet(o, t, b) == [op |-> o, t |-> t, kind |-> "value", bool |-> b,
                     err |-> "", xvt |-> NoXvt]
VoidRet(o) == [op |-> o, t |-> 0, kind |-> "value", bool |-> FALSE,
               err |-> "", xvt |-> NoXvt]
XvtRet(t, x) == [op |-> "svXvt", t |-> t, kind |-> "value", bool |-> FALSE,
                 err |-> "", xvt |-> x]

(********************** BDSEphemeris, pure parts ***************************)
\* isValid with the end of the window excluded
isValid_HalfOpen(e, ct) == ct >= e.beginValid /\ ct < e.endValid

\* ct >= beginValid && ct <= endValid
isValid(e, ct) == ct >= e.beginValid /\ ct <= e.endValid

\* the base-class call made "for dataLoaded check": TRUE when it throws
OrbitEphThrows(e) == ~e.dataLoadedFlag

\* health == 0
isHealthy(e) == e.health = HealthyCode

\* adjustValidity with the end of the window counted from beginValid
adjustValidity_EndFromBegin(e) ==
    LET b0 == e.ctToe
        b1 == IF e.transmitTime > b0 THEN e.transmitTime ELSE b0
    IN  [e EXCEPT !.beginValid = b1, !.endValid = b1 + 3600]

\* body of adjustValidity after the base-class check
adjustValidity(e) ==
    LET b0 == e.ctToe
        b1 == IF e.transmitTime > b0 THEN e.transmitTime ELSE b0
    IN  [e EXCEPT !.beginValid = b1, !.endValid = e.ctToe + ValidDuration]

\* satID.id > 5: the standard OrbitEph::svXvt is used
UsesOrbitEph(e) == e.id > GeoMaxId

\* the loop test with the cap reached one pass early
KeplerContinue_CapEarly(d, cnt) == Abs(d) > Threshold /\ cnt < MaxLoopCnt

\* while ((fabs(delea) > 1.0e-11) && (loop_cnt <= 20))
KeplerContinue(d, cnt) == Abs(d) > Threshold /\ cnt <= MaxLoopCnt

\* the Xvt the geostationary branch returns: sv.v[0..2] = 0.0
GeoXvt(e, t) == [variant |-> "GEO", v |-> ZeroVec]

(************************** BDSEphemeris, actions **************************)
EphInit ==
    /\ eph \in {[dataLoadedFlag |-> l, id |-> i, ctToe |-> toe,
                 transmitTime |-> toe + d, beginValid |-> w[1],
                 endValid |-> w[2], health |-> h] :
                 l \in BOOLEAN, i \in IdSet, toe \in ToeSet,
                 d \in TransmitOffsets, w \in InitWindows, h \in HealthSet}
    /\ ret = NoRet
    /\ pc = "idle"
    /\ tq = 0
    /\ loop_cnt = 0
    /\ delea = 0

IsValidCall ==
    /\ pc = "idle"
    /\ \E t \in QueryTimes : ret' = BoolRet("isValid", t, isValid(eph, t))
    /\ UNCHANGED <<eph, pc, tq, loop_cnt, delea, store, sret, arcVars>>

IsHealthyCall ==
    /\ pc = "idle"
    /\ ret' = IF OrbitEphThrows(eph)
              THEN ErrRet("isHealthy", 0, "InvalidRequest")
              ELSE BoolRet("isHealthy", 0, isHealthy(eph))
    /\ UNCHANGED <<eph, pc, tq, loop_cnt, delea, store, sret, arcVars>>

AdjustValidityCall ==
    /\ pc = "idle"
    /\ IF OrbitEphThrows(eph)
       THEN /\ ret' = ErrRet("adjustValidity", 0, "InvalidRequest")
            /\ eph' = eph
       ELSE /\ eph' = adjustValidity(eph)
            /\ ret' = VoidRet("adjustValidity")
    /\ UNCHANGED <<pc, tq, loop_cnt, delea, store, sret, arcVars>>

\* entry of svXvt up to the first pass of the do-while loop
SvXvtCall ==
    /\ pc = "idle"
    /\ \E t \in QueryTimes :
         IF ~eph.dataLoadedFlag
         THEN /\ ret' = ErrRet("svXvt", t, "InvalidRequest")
              /\ UNCHANGED <<pc, tq, loop_cnt, delea>>
         ELSE IF UsesOrbitEph(eph)
         THEN /\ \E vel \in StdVelocities :
                   ret' = XvtRet(t, [variant |-> "OrbitEph", v |-> vel])
              /\ UNCHANGED <<pc, tq, loop_cnt, delea>>
         ELSE /\ pc' = "kepler"
              /\ tq' = t
              /\ loop_cnt' = FirstLoopCnt
              /\ delea' = 0
              /\ ret' = NoRet
    /\ UNCHANGED <<eph, store, sret, arcVars>>

\* one pass of the do-while body and its loop test
KeplerStep ==
    /\ pc = "kepler"
    /\ \E d \in DeleaVals :
         /\ delea' = d
         /\ loop_cnt' = loop_cnt + 1
         /\ pc' = IF KeplerContinue(d, loop_cnt + 1) THEN "kepler" ELSE "geo"
    /\ UNCHANGED <<eph, ret, tq, store, sret, arcVars>>

\* the rest of the geostationary branch, to "return sv"
SvXvtReturn ==
    /\ pc = "geo"
    /\ ret' = XvtRet(tq, GeoXvt(eph, tq))
    /\ pc' = "idle"
    /\ tq' = 0
    /\ loop_cnt' = 0
    /\ delea' = 0
    /\ UNCHANGED <<eph, store, sret, arcVars>>

(************************** GalEphemerisStore ******************************)
Systems == {"Galileo", "BeiDou", "GPS"}
PrnSet == {1, 2}
SatIDs == [system : Systems, id : PrnSet]
StoreToes == {7200, 10800}
StoreTxOffsets == {0 - 300, 120}
StoreQueryOffsets == {0, 120, 3600}
StoreTimes == {toe + d : toe \in StoreToes, d \in StoreQueryOffsets}
\* navigation messages handed to addEphemeris
NavData == [satSys : Systems, PRN : PrnSet, Toe : StoreToes,
            txOffset : StoreTxOffsets]

\* the null pointer
NoRec == [system |-> "none", id |-> 0, ctToe |-> 0, transmitTime |-> 0,
          beginValid |-> 0, endValid |-> 0]
NoSat == [system |-> "none", id |-> 0]
NoSret == [op |-> "none", sat |-> NoSat, t |-> 0, kind |-> "none",
           msg |-> "", rec |-> NoRec]

\* the object addEphemeris builds from a message, before adjustValidity
Loaded(rnd) == [system |-> rnd.satSys, id |-> rnd.PRN, ctToe |-> rnd.Toe,
                transmitTime |-> rnd.Toe + rnd.txOffset,
                beginValid |-> 0, endValid |-> 0]

SameKey(r, q) == r.system = q.system /\ r.id = q.id /\ r.ctToe = q.ctToe

\* OrbitEphStore::findOrbitEph: the record of sat whose window contains t,
\* the most recently transmitted one when several do; NoRec when none does
findOrbitEph(st, sat, t) ==
    LET cand == {r \in st : r.system = sat.system /\ r.id = sat.id
                            /\ isValid(r, t)}
    IN  IF cand = {} THEN NoRec
        ELSE CHOOSE r \in cand :
                 \A q \in cand : q.transmitTime <= r.transmitTime

\* findEphemeris without the test of the pointer findOrbitEph returned
findEphemeris_NoNullTest(st, sat, t) ==
    IF sat.system # "BeiDou"
    THEN [kind |-> "InvalidRequest", msg |-> "Invalid satellite system",
          rec |-> NoRec]
    ELSE [kind |-> "record", msg |-> "", rec |-> findOrbitEph(st, sat, t)]

\* findEphemeris with the text of the first throw repeated in the second
findEphemeris_SameMessage(st, sat, t) ==
    IF sat.system # "BeiDou" \/ findOrbitEph(st, sat, t) = NoRec
    THEN [kind |-> "InvalidRequest", msg |-> "Invalid satellite system",
          rec |-> NoRec]
    ELSE [kind |-> "record", msg |-> "", rec |-> findOrbitEph(st, sat, t)]

\* GalEphemerisStore::findEphemeris
findEphemeris(st, sat, t) ==
    IF sat.system # "BeiDou"
    THEN [kind |-> "InvalidRequest", msg |-> "Invalid satellite system",
          rec |-> NoRec]
    ELSE LET e == findOrbitEph(st, sat, t)
         IN  IF e = NoRec
             THEN [kind |-> "InvalidRequest", msg |-> "Ephemeris not found",
                   rec |-> NoRec]
             ELSE [kind |-> "record", msg |-> "", rec |-> e]

StoreIdle ==
    /\ store = {}
    /\ sret = NoSret

\* GalEphemerisStore::addEphemeris(rnd)
AddEphemeris ==
    /\ \E rnd \in NavData :
         LET r == adjustValidity(Loaded(rnd))
             dup == {q \in store : SameKey(q, r)}
         IN  IF rnd.satSys # "Galileo"
             THEN /\ store' = store
                  /\ sret' = [NoSret EXCEPT !.op = "add", !.kind = "NULL"]
             ELSE IF dup = {}
             THEN /\ Cardinality(store) < MaxRecs
                  /\ store' = store \cup {r}
                  /\ sret' = [NoSret EXCEPT !.op = "add", !.kind = "record",
                                            !.rec = r]
             ELSE \/ /\ store' = (store \ dup) \cup {r}
                     /\ sret' = [NoSret EXCEPT !.op = "add",
                                    !.kind = "record", !.rec = r]
                  \/ /\ store' = store
                     /\ sret' = [NoSret EXCEPT !.op = "add", !.kind = "NULL"]
    /\ UNCHANGED <<ephVars, arcVars>>

FindEphemerisCall ==
    /\ \E sat \in SatIDs, t \in StoreTimes :
         LET res == findEphemeris(store, sat, t)
         IN  sret' = [op |-> "find", sat |-> sat, t |-> t, kind |-> res.kind,
                      msg |-> res.msg, rec |-> res.rec]
    /\ UNCHANGED <<store>>
    /\ UNCHANGED <<ephVars, arcVars>>


(****************************** SatArcMarker *******************************)
\* Cycle-slip flags are carried in halves, so that a value strictly between
\* 0.0 and 1.0 exists: CSOne is the flag value 1.0.
CSOne == 2
FlagVals == {0, 1, 2}
\* one satellite is followed: a pass of the loop in Process reads and writes
\* only the map entries of the satellite it is at
ArcSats == {1}
\* the order in which Process walks the satellites of gData
SatOrder == <<1>>
EpochSet == {0, 10, 20, 30}
UnstableTimes == {0 - 5, 0, 15}
\* DayTime::BEGINNING_OF_TIME, earlier than every epoch by more than any
\* unstable period
BeginningOfTime == 0 - 1000
\* values a default-constructed DayTime may hold
DefaultTimes == {BeginningOfTime} \cup EpochSet

\* the typeValueMap of one satellite: the watched flag, if it is there,
\* and TypeID::satArc
TypeValues == {[hasFlag |-> FALSE, flag |-> 0, satArc |-> 0]} \cup
              {[hasFlag |-> TRUE, flag |-> f, satArc |-> 0] : f \in FlagVals}
InData == UNION {[S -> TypeValues] : S \in SUBSET ArcSats}
NoData == [s \in {} |-> 0]

\* std::map: m[k] = v
Put(m, k, v) == [x \in DOMAIN m \cup {k} |-> IF x = k THEN v ELSE m[x]]
\* std::map: the entry operator[] makes when k has none
Touch(m, k, d) == IF k \in DOMAIN m THEN m ELSE Put(m, k, d)

\* unstableTime > 0.0 ? unstableTime : 0.0
CheckedPeriod(unstableTime) == IF unstableTime > 0 THEN unstableTime ELSE 0

\* the arc test with a stored flag of 1.0 let through
ArcIncrease_PrevLeq(prev, epoch, change) ==
    prev <= CSOne /\ Abs(epoch - change) > unstablePeriod

\* prevCSFlagMap[sat] < 1.0 && abs(epoch - satArcChangeMap[sat]) > unstablePeriod
ArcIncrease(prev, epoch, change) ==
    prev < CSOne /\ Abs(epoch - change) > unstablePeriod

\* deleteUnstableSats && abs(epoch - satArcChangeMap[sat]) <= unstablePeriod
Unstable(epoch, change) ==
    deleteUnstableSats /\ Abs(epoch - change) <= unstablePeriod

\* the block run for a satellite whose flag is > 0.0; m holds the three maps,
\* the rejected set and the data, dflt is the value of a new DayTime
SlipBlock(m, s, epoch, dflt) ==
    LET a0 == IF s \notin DOMAIN m.arc
              THEN [m EXCEPT !.arc = Put(@, s, 0),
                             !.chg = Put(@, s, BeginningOfTime)]
              ELSE m
        a1 == [a0 EXCEPT !.prev = Touch(@, s, 0)]
        \* the second operand of && is evaluated only after the first holds
        a2 == IF a1.prev[s] < CSOne
              THEN [a1 EXCEPT !.chg = Touch(@, s, dflt)]
              ELSE a1
        a3 == IF s \in DOMAIN a2.chg
                 /\ ArcIncrease(a2.prev[s], epoch, a2.chg[s])
              THEN LET b == [a2 EXCEPT !.arc[s] = @ + 1]
                   IN  IF b.arc[s] > 1 THEN [b EXCEPT !.chg[s] = epoch] ELSE b
              ELSE a2
        a4 == IF deleteUnstableSats
              THEN [a3 EXCEPT !.chg = Touch(@, s, dflt)]
              ELSE a3
    IN  IF s \in DOMAIN a4.chg /\ Unstable(epoch, a4.chg[s])
        THEN [a4 EXCEPT !.rej = @ \cup {s}]
        ELSE a4

\* one pass of the loop over the satellites of gData
ProcessSat(m, s, epoch, dflt) ==
    IF ~m.data[s].hasFlag
    THEN [m EXCEPT !.rej = @ \cup {s}]
    ELSE LET flag == m.data[s].flag
             m1 == IF flag > 0 THEN SlipBlock(m, s, epoch, dflt) ELSE m
             m2 == [m1 EXCEPT !.arc = Touch(@, s, 0)]
             m3 == [m2 EXCEPT !.data[s].satArc = m2.arc[s]]
         IN  [m3 EXCEPT !.prev = Put(@, s, flag)]

RECURSIVE ProcessFrom(_, _, _, _)
\* the loop over the satellites of gData, from position i of SatOrder
ProcessFrom(m, i, epoch, dflt) ==
    IF i > Len(SatOrder) THEN m
    ELSE IF SatOrder[i] \in DOMAIN m.data
    THEN ProcessFrom(ProcessSat(m, SatOrder[i], epoch, dflt), i + 1,
                     epoch, dflt)
    ELSE ProcessFrom(m, i + 1, epoch, dflt)

\* gData.removeSatID(satRejectedSet)
removeSatID(data, rej) == [s \in DOMAIN data \ rej |-> data[s]]

\* SatArcMarker::SatArcMarker(watchFlag, delUnstableSats, unstableTime)
ArcInit ==
    /\ deleteUnstableSats \in BOOLEAN
    /\ unstablePeriod \in {CheckedPeriod(u) : u \in UnstableTimes}
    /\ satArcMap = NoData
    /\ satArcChangeMap = NoData
    /\ prevCSFlagMap = NoData
    /\ aop = "none"
    /\ epochIn = 0
    /\ gIn = NoData
    /\ gData = NoData

\* SatArcMarker::setUnstablePeriod(unstableTime)
SetUnstablePeriod ==
    /\ \E u \in UnstableTimes : unstablePeriod' = CheckedPeriod(u)
    /\ aop' = "setUnstablePeriod"
    /\ UNCHANGED <<deleteUnstableSats, satArcMap, satArcChangeMap,
                   prevCSFlagMap, epochIn, gIn, gData, ephVars, storeVars>>

\* SatArcMarker::Process(epoch, gData, epochflag)
Process ==
    /\ \A s \in DOMAIN satArcMap : satArcMap[s] < MaxArc
    /\ \E epoch \in EpochSet, g \in InData, dflt \in DefaultTimes :
         LET m == ProcessFrom([arc |-> satArcMap, chg |-> satArcChangeMap,
                               prev |-> prevCSFlagMap, rej |-> {},
                               data |-> g], 1, epoch, dflt)
         IN  /\ satArcMap' = m.arc
             /\ satArcChangeMap' = m.chg
             /\ prevCSFlagMap' = m.prev
             /\ gData' = removeSatID(m.data, m.rej)
             /\ epochIn' = epoch
             /\ gIn' = g
    /\ aop' = "Process"
    /\ UNCHANGED <<deleteUnstableSats, unstablePeriod, ephVars, storeVars>>

\* a marker built with its defaults and left alone
ArcAtRest ==
    /\ deleteUnstableSats = FALSE
    /\ unstablePeriod = 0
    /\ satArcMap = NoData
    /\ satArcChangeMap = NoData
    /\ prevCSFlagMap = NoData
    /\ aop = "none"
    /\ epochIn = 0
    /\ gIn = NoData
    /\ gData = NoData

(**************************** specifications *******************************)
Init == EphInit /\ StoreIdle /\ ArcAtRest

Next ==
    \/ IsValidCall
    \/ IsHealthyCall
    \/ AdjustValidityCall
    \/ SvXvtCall
    \/ KeplerStep
    \/ SvXvtReturn

\* the operations on one BDSEphemeris object
Spec == Init /\ [][Next]_vars

\* one loaded object, left alone while the store is exercised
EphAtRest ==
    /\ eph = [dataLoadedFlag |-> TRUE, id |-> 1, ctToe |-> 7200,
              transmitTime |-> 7200, beginValid |-> 7200,
              endValid |-> 10800, health |-> 0]
    /\ ret = NoRet
    /\ pc = "idle"
    /\ tq = 0
    /\ loop_cnt = 0
    /\ delea = 0

StoreInit == EphAtRest /\ StoreIdle /\ ArcAtRest

StoreNext ==
    \/ AddEphemeris
    \/ FindEphemerisCall

\* the operations on one GalEphemerisStore
StoreSpec == StoreInit /\ [][StoreNext]_vars

ArcSpecInit == EphAtRest /\ StoreIdle /\ ArcInit

ArcNext ==
    \/ SetUnstablePeriod
    \/ Process

\* the operations on one SatArcMarker
ArcSpec == ArcSpecInit /\ [][ArcNext]_vars

(******************************* claims ************************************)
SatOf(r) == [system |-> r.system, id |-> r.id]
Covering(sat, t) == {r \in store : SatOf(r) = sat /\ r.beginValid <= t
                                   /\ t <= r.endValid}

\* C1: findEphemeris on a satellite of any system other than Galileo ends in
\* InvalidRequest and hands back no record, whatever the store holds and
\* whatever t is.
C1_ForeignSystemFails ==
    (sret.op = "find" /\ sret.sat.system # "Galileo")
        => (sret.kind = "InvalidRequest" /\ sret.rec = NoRec)

\* A BeiDou satellite was queried at a time a stored record covers for the
\* same PRN, and the query failed with InvalidRequest.
C1_Witness ==
    /\ sret.op = "find"
    /\ sret.sat.system = "BeiDou"
    /\ sret.kind = "InvalidRequest"
    /\ \E r \in store : r.id = sret.sat.id /\ r.beginValid <= sret.t
                        /\ sret.t <= r.endValid

\* C2: findEphemeris on a Galileo satellite is never rejected as a request
\* for the wrong system: it returns a stored record of that satellite whose
\* window contains t when there is one, and fails with "not found" otherwise.
C2_GalileoServed ==
    (sret.op = "find" /\ sret.sat.system = "Galileo")
        => /\ sret.msg # "Invalid satellite system"
           /\ Covering(sret.sat, sret.t) # {}
                => (sret.kind = "record"
                    /\ sret.rec \in Covering(sret.sat, sret.t))
           /\ Covering(sret.sat, sret.t) = {}
                => (sret.kind = "InvalidRequest"
                    /\ sret.msg = "Ephemeris not found")

\* C3: when the store holds exactly the one record r that was added to the
\* empty store, findEphemeris for r's satellite at r's Toe returns r.
C3_RoundTrip ==
    \A r \in store :
        (store = {r} /\ sret.op = "find" /\ sret.sat = SatOf(r)
         /\ sret.t = r.ctToe)
            => (sret.kind = "record" /\ sret.rec = r)

C5_WindowOrdered ==
    (ret.op = "adjustValidity" /\ ret.kind = "value")
        => (eph.beginValid <= eph.endValid /\ eph.beginValid >= eph.ctToe)

\* C6: isValid, isHealthy, adjustValidity and svXvt on a record whose data is
\* not loaded all end in an error, none with a value.
C6_UnloadedQueriesFail ==
    (~eph.dataLoadedFlag
     /\ ret.op \in {"isValid", "isHealthy", "adjustValidity", "svXvt"})
        => ret.kind = "error"

\* C7: when the Kepler loop of svXvt ends at the iteration cap with the last
\* increment still above the threshold, the call ends in a
\* KeplerNonConvergence failure instead of returning an orbit state.
C7_NonConvergenceSurfaced ==
    [][(pc = "geo" /\ loop_cnt > MaxLoopCnt /\ Abs(delea) > Threshold)
          => (ret'.kind = "error" /\ ret'.err = "KeplerNonConvergence")]_vars

\* C8: svXvt takes the geostationary branch for exactly the ids 1..5 and the
\* standard OrbitEph::svXvt for every other id.
C8_GeoExactlyOneToFive ==
    (ret.op = "svXvt" /\ ret.kind = "value")
        => (ret.xvt.variant = "GEO" <=> eph.id \in 1..5)

\* C9: the velocity svXvt returns for a geostationary-class satellite is a
\* value derived from the record and the time, not the constant zero vector.
C9_GeoVelocityDerived ==
    (ret.op = "svXvt" /\ ret.kind = "value" /\ ret.xvt.variant = "GEO")
        => ret.xvt.v # ZeroVec

KeplerUpdates == loop_cnt - FirstLoopCnt

C12_LoopState ==
    /\ pc = "kepler" => (loop_cnt >= 1 /\ loop_cnt <= 20)
    /\ (pc = "kepler" /\ KeplerUpdates >= 1) => Abs(delea) > 1
    /\ pc = "geo" => (KeplerUpdates >= 1 /\ KeplerUpdates <= 20)
    /\ (pc = "geo" /\ KeplerUpdates < 20) => Abs(delea) <= 1

At(m, k, d) == IF k \in DOMAIN m THEN m[k] ELSE d

\* s has an arc change on record: its arc number has risen above 1, so that
\* satArcChangeMap[s] is the epoch of that rise
HasArcChange(s) == s \in DOMAIN satArcChangeMap /\ At(satArcMap, s, 0) > 1

\* C13: with deleteUnstableSats set, every satellite of the epoch's data
\* whose last arc change lies within unstablePeriod seconds of the epoch is
\* absent from the data Process returns, whatever its cycle-slip flag.
C13_UnstableSatsRemoved ==
    (aop = "Process" /\ deleteUnstableSats)
        => \A s \in DOMAIN gIn :
               (HasArcChange(s)
                /\ Abs(epochIn - satArcChangeMap[s]) <= unstablePeriod)
                   => s \notin DOMAIN gData

\* the epoch the arc test of a Process step compared with: the entry of
\* satArcChangeMap the step found, or else the one it made
ChangeRead(s) ==
    IF s \in DOMAIN satArcChangeMap THEN satArcChangeMap[s]
    ELSE At(satArcChangeMap', s, BeginningOfTime)

\* the arc test of the claim, on the call's flag and epoch and the maps
\* before the call
ArcShouldRise(s) ==
    /\ gIn'[s].flag > 0
    /\ At(prevCSFlagMap, s, 0) < 2
    /\ Abs(epochIn' - ChangeRead(s)) > unstablePeriod

\* C14: in a Process call, a satellite carrying the watched flag has its arc
\* number raised, by exactly 1, if and only if its flag is > 0, its stored
\* flag is < 1 and the time to its last arc change exceeds unstablePeriod;
\* otherwise the arc number stays; no arc number ever decreases, and an
\* arc-change epoch is rewritten only by a rise to an arc number above 1.
C14_ArcRisesExactlyOnNewSlip ==
    [][aop' = "Process"
         => /\ \A s \in DOMAIN gIn' :
                 gIn'[s].hasFlag
                     => /\ s \in DOMAIN satArcMap'
                        /\ satArcMap'[s] = At(satArcMap, s, 0)
                               + (IF ArcShouldRise(s) THEN 1 ELSE 0)
            /\ \A s \in DOMAIN satArcMap :
                 /\ s \in DOMAIN satArcMap'
                 /\ satArcMap'[s] >= satArcMap[s]
            /\ \A s \in DOMAIN satArcChangeMap :
                 /\ s \in DOMAIN satArcChangeMap'
                 /\ satArcChangeMap'[s] # satArcChangeMap[s]
                      => /\ satArcMap'[s] = At(satArcMap, s, 0) + 1
                         /\ satArcMap'[s] > 1
                         /\ satArcChangeMap'[s] = epochIn']_vars

\* The satellite's arc number has just risen above 1: its flag was raised
\* and its arc-change epoch is the epoch of the call.
C14_Witness ==
    /\ aop = "Process"
    /\ \E s \in DOMAIN gIn :
         /\ gIn[s].hasFlag
         /\ gIn[s].flag > 0
         /\ At(satArcMap, s, 0) > 1
         /\ At(satArcChangeMap, s, BeginningOfTime) = epochIn
         /\ At(prevCSFlagMap, s, 0) = gIn[s].flag

=============================================================================
